---- MODULE Spec2Model ----
(***************************************************************************)
(* Model of lib/deploy.js (discharge): the "Synchronize website" task      *)
(* (Spec) and the whole task list of a deploy (PipelineSpec).              *)
(* Paths, keys and hashes are strings, modelled as sequences of tokens     *)
(* ("a", "/", "index", ".html") so that endsWith, split and equality are   *)
(* computed on the text the way the JavaScript computes them.              *)
(***************************************************************************)
EXTENDS Integers, Sequences, FiniteSets, TLC

\* ---------------------------------------------------------------- bounds
MaxFiles == 2       \* files in the upload directory
MaxObjects == 3     \* objects in the bucket before the first run
MaxRuns == 2        \* deploys in a row over the same directory and bucket
PageSize == 2       \* keys per listObjectsV2 page (1000 at the store), scaled

\* ----------------------------------------------------------- string data
P_index == <<"index", ".html">>
P_a_index == <<"a", "/", "index", ".html">>
P_a_b_index == <<"a", "/", "b", "/", "index", ".html">>
P_a_xindex == <<"a", "/", "x", "index", ".html">>
P_about == <<"about", ".html">>
K_a == <<"a">>
K_a_b == <<"a", "/", "b">>
K_old == <<"old", ".html">>

\* glob.sync's result order (alphabetical) over the paths of the model
PathOrder == <<P_a_b_index, P_a_index, P_a_xindex, P_about, P_index>>
Paths == {PathOrder[n] : n \in 1..Len(PathOrder)}

\* the store lists keys in UTF-8 binary order
KeyOrder == <<K_a, K_a_b, P_a_b_index, P_a_index, P_a_xindex, P_about, P_index, K_old>>
Keys == {KeyOrder[n] : n \in 1..Len(KeyOrder)}
InitKeys == {K_a, K_a_b, P_index, K_old}

Bytes == {"c1", "c2"}
EmptyBody == "empty"
NoKey == <<>>
NoError == [code |-> "none"]
RemoteErrors == {[code |-> "AccessDenied"], [code |-> "SlowDown"]}
IOErrors == {[code |-> "ENOENT"], [code |-> "EACCES"]}

VARIABLES files, trailingSlashes, bucket, pc, source, target, changes, i,
          calls, error, output, run,
          listed,     \* the bucket as it was when the listing was answered
          config,     \* the configuration file's settings (context.config)
          cacheControl,
          exists,     \* the bucket exists at the store
          website,    \* the bucket's website configuration at the store
          tasks       \* titles of the tasks completed or skipped so far

vars == <<files, trailingSlashes, bucket, pc, source, target, changes, i,
          calls, error, output, run, listed, config, cacheControl, exists,
          website, tasks>>

\* ------------------------------------------------------ string functions
EndsWith(s, suffix) ==
    /\ Len(s) >= Len(suffix)
    /\ SubSeq(s, Len(s) - Len(suffix) + 1, Len(s)) = suffix

\* s.split("/")[0]: the text before the first "/"
SplitFirst(s) ==
    LET slashes == {n \in 1..Len(s) : s[n] = "/"}
    IN  IF slashes = {} THEN s
        ELSE SubSeq(s, 1, (CHOOSE n \in slashes : \A m \in slashes : n <= m) - 1)

targetKeyAlwaysCollapse(path, trailing) ==
    IF path # P_index /\ EndsWith(path, <<"/", "index", ".html">>)
    THEN SplitFirst(path)
    ELSE path

targetKey(path, trailing) ==
    IF path # P_index /\ EndsWith(path, <<"/", "index", ".html">>) /\ ~trailing
    THEN SplitFirst(path)
    ELSE path

\* crypto.createHash("md5").update(content).digest("hex"): one digest per content
MD5(content) ==
    CASE content = "c1" -> <<"d1">>
      [] content = "c2" -> <<"d2">>
      [] OTHER -> <<"d0">>

Quote(h) == <<"\"">> \o h \o <<"\"">>

\* the entity tag the store reports for an object written by a single put
ETag(body) == Quote(MD5(body))

\* ---------------------------------------------------------- configuration
TaskTitles ==
    <<"Load configuration", "Build website", "Create bucket",
      "Configure bucket as website", "Synchronize website">>

\* settings of the configuration file; "none" is a setting left out
Configs ==
    {[present |-> x, cache |-> c[1], cache_control |-> c[2], index_key |-> P_index,
      error_key |-> e] :
        x \in BOOLEAN, c \in {<<"3600", "none">>, <<"none", "no-cache">>},
        e \in {P_about, P_a_index}}

SyncConfig ==
    [present |-> TRUE, cache |-> "3600", cache_control |-> "none",
     index_key |-> P_index, error_key |-> P_about]

\* CacheControl.build(cache, cache_control): the explicit header value wins
\* over the max-age derived from cache
CacheControlBuild(cache, cache_control) ==
    IF cache_control # "none" THEN cache_control
    ELSE IF cache # "none" THEN "max-age=" \o cache
    ELSE "none"

\* s.replace(".html", ""): the first occurrence is removed
ReplaceHtml(s) ==
    LET hits == {n \in 1..Len(s) : s[n] = ".html"}
    IN  IF hits = {} THEN s
        ELSE LET h == CHOOSE n \in hits : \A m \in hits : n <= m
             IN  SubSeq(s, 1, h - 1) \o SubSeq(s, h + 1, Len(s))

\* the ErrorDocument key of the configure task
ErrorKey(cfg, trailing) ==
    IF ~trailing THEN ReplaceHtml(cfg.error_key) ELSE cfg.error_key

\* WebsiteConfiguration of the putBucketWebsite call
WebsiteOf(cfg, trailing) ==
    [ErrorDocument |-> ErrorKey(cfg, trailing), IndexDocument |-> cfg.index_key]

NoWebsite == [ErrorDocument |-> NoKey, IndexDocument |-> NoKey]

\* ------------------------------------------------------------------ Init
LocalTrees ==
    UNION {[S -> Bytes] : S \in {T \in SUBSET Paths : Cardinality(T) <= MaxFiles}}

InitBuckets ==
    UNION {[S -> Bytes] : S \in {T \in SUBSET InitKeys : Cardinality(T) <= MaxObjects}}

EmptyChanges == [add |-> <<>>, update |-> <<>>, remove |-> <<>>]

Init ==
    /\ files \in LocalTrees
    /\ trailingSlashes \in BOOLEAN
    /\ bucket \in InitBuckets
    /\ pc = "source"
    /\ source = <<>>
    /\ target = <<>>
    /\ changes = EmptyChanges
    /\ i = 1
    /\ calls = <<>>
    /\ error = NoError
    /\ output = <<>>
    /\ run = 1
    /\ listed = <<>>
    /\ config = SyncConfig
    /\ cacheControl = "none"
    /\ exists = TRUE
    /\ website = WebsiteOf(config, trailingSlashes)
    /\ tasks = SubSeq(TaskTitles, 1, 4)

\* --------------------------------------------------------- local manifest
\* glob.sync("**/*", {cwd: uploadDirectory, nodir: true})
GlobPaths == SelectSeq(PathOrder, LAMBDA p : p \in DOMAIN files)

SourceEntry(path) ==
    [path |-> path,
     key |-> targetKey(path, trailingSlashes),
     md5Hash |-> Quote(MD5(files[path]))]

BuildSource ==
    /\ pc = "source"
    /\ source' = [n \in 1..Len(GlobPaths) |-> SourceEntry(GlobPaths[n])]
    /\ cacheControl' = CacheControlBuild(config.cache, config.cache_control)
    /\ pc' = "list"
    /\ UNCHANGED <<files, trailingSlashes, bucket, target, changes, i, calls,
                   error, output, run, listed, config, exists,
                   website, tasks>>

BuildSourceSkipsUnreadable ==
    /\ pc = "source" /\ DOMAIN files # {}
    /\ cacheControl' = CacheControlBuild(config.cache, config.cache_control)
    /\ \E e \in IOErrors : error' = e
    /\ source' = [n \in 1..Len(GlobPaths) - 1 |-> SourceEntry(GlobPaths[n + 1])]
    /\ pc' = "list"
    /\ UNCHANGED <<files, trailingSlashes, bucket, target, changes, i, calls,
                   output, run, listed, config, exists, website, tasks>>

\* fs.readFileSync throws inside paths.map: the task function throws
BuildSourceThrows ==
    /\ pc = "source" /\ DOMAIN files # {}
    /\ cacheControl' = CacheControlBuild(config.cache, config.cache_control)
    /\ \E e \in IOErrors : error' = e
    /\ pc' = "failed"
    /\ UNCHANGED <<files, trailingSlashes, bucket, source, target, changes, i,
                   calls, output, run, listed, config, exists, website, tasks>>

\* -------------------------------------------------------- remote manifest
ListCall(ok) ==
    [op |-> "listObjectsV2", Key |-> NoKey, Body |-> "none", ACL |-> "none",
     CacheControl |-> "none", ContentType |-> "none", ok |-> ok]

\* response.Contents of one listObjectsV2 call without ContinuationToken:
\* the first page of the bucket's keys, in the store's key order
Contents(b) ==
    LET ks == SelectSeq(KeyOrder, LAMBDA k : k \in DOMAIN b)
        n == IF Len(ks) < PageSize THEN Len(ks) ELSE PageSize
    IN  [j \in 1..n |-> [Key |-> ks[j], ETag |-> ETag(b[ks[j]])]]

TargetEntryUnquoted(object) ==
    [key |-> object.Key, md5Hash |-> SubSeq(object.ETag, 2, Len(object.ETag) - 1)]

TargetEntry(object) ==
    [key |-> object.Key, md5Hash |-> object.ETag]

ListObjects ==
    /\ pc = "list"
    /\ calls' = Append(calls, ListCall(TRUE))
    /\ target' = [n \in 1..Len(Contents(bucket)) |-> TargetEntry(Contents(bucket)[n])]
    /\ listed' = bucket
    /\ pc' = "diff"
    /\ UNCHANGED <<files, trailingSlashes, bucket, source, changes, i, error,
                   output, run, config, cacheControl, exists,
                   website, tasks>>

ListObjectsRejected ==
    /\ pc = "list"
    /\ \E e \in RemoteErrors :
        /\ calls' = Append(calls, ListCall(FALSE))
        /\ error' = e
        /\ pc' = "failed"
    /\ UNCHANGED <<files, trailingSlashes, bucket, source, target, changes, i,
                   output, run, listed, config, cacheControl, exists,
                   website, tasks>>

\* ------------------------------------------------------------------- diff
KeysOf(entries) == {entries[n].key : n \in 1..Len(entries)}

\* the local-side mapping from key to entry, filled in manifest order: a later
\* entry with the same key replaces the earlier one
LocalMap(src) ==
    [k \in KeysOf(src) |->
        CHOOSE n \in 1..Len(src) :
            /\ src[n].key = k
            /\ \A j \in 1..Len(src) : src[j].key = k => j <= n]

HashAt(entries, k) ==
    entries[CHOOSE n \in 1..Len(entries) : entries[n].key = k].md5Hash

diff(src, tgt) ==
    LET kept == [n \in 1..Len(src) |-> LocalMap(src)[src[n].key] = n]
        idx == SelectSeq([n \in 1..Len(src) |-> n], LAMBDA n : kept[n])
        local == [n \in 1..Len(idx) |-> src[idx[n]]]
    IN  [add |-> SelectSeq(local, LAMBDA e : e.key \notin KeysOf(tgt)),
         update |-> SelectSeq(local, LAMBDA e : /\ e.key \in KeysOf(tgt)
                                                /\ HashAt(tgt, e.key) # e.md5Hash),
         remove |-> SelectSeq(tgt, LAMBDA t : t.key \notin KeysOf(src))]

Diff ==
    /\ pc = "diff"
    /\ changes' = diff(source, target)
    /\ pc' = "add"
    /\ i' = 1
    /\ UNCHANGED <<files, trailingSlashes, bucket, source, target, calls, error,
                   output, run, listed, config, cacheControl, exists,
                   website, tasks>>

\* ------------------------------------------------------------------ apply
\* mime.getType(fullPath): the type of the path's extension, null without one
MimeType(path) ==
    IF path[Len(path)] = ".html" THEN "text/html" ELSE "none"

UploadParamsNoCache(change) ==
    [op |-> "putObject", Key |-> change.key, Body |-> files[change.path],
     ACL |-> "public-read", CacheControl |-> "none",
     ContentType |-> MimeType(change.path)]

UploadParams(change) ==
    [op |-> "putObject", Key |-> change.key, Body |-> files[change.path],
     ACL |-> "public-read", CacheControl |-> cacheControl,
     ContentType |-> MimeType(change.path)]

RemoveParams(change) ==
    [op |-> "putObject", Key |-> change.key, Body |-> "none", ACL |-> "none",
     CacheControl |-> "none", ContentType |-> "none"]

CallOf(params, ok) ==
    [op |-> params.op, Key |-> params.Key, Body |-> params.Body,
     ACL |-> params.ACL, CacheControl |-> params.CacheControl,
     ContentType |-> params.ContentType, ok |-> ok]

\* the store's effect of a successful call
Store(b, params) ==
    IF params.op = "putObject"
    THEN [k \in DOMAIN b \cup {params.Key} |->
            IF k = params.Key
            THEN (IF params.Body = "none" THEN EmptyBody ELSE params.Body)
            ELSE b[k]]
    ELSE [k \in DOMAIN b \ {params.Key} |-> b[k]]

\* await resolves: the loop goes on with the next change
Resolved(params) ==
    /\ bucket' = Store(bucket, params)
    /\ calls' = Append(calls, CallOf(params, TRUE))
    /\ i' = i + 1
    /\ UNCHANGED <<pc, error>>

RejectedSwallowed(params, e) ==
    /\ calls' = Append(calls, CallOf(params, FALSE))
    /\ i' = i + 1
    /\ UNCHANGED <<pc, error, bucket>>

RejectedRollback(params, e) ==
    /\ calls' = Append(calls, CallOf(params, FALSE))
    /\ error' = e
    /\ pc' = "failed"
    /\ bucket' = listed
    /\ UNCHANGED i

\* await rejects: the async task function throws the client's error
Rejected(params, e) ==
    /\ calls' = Append(calls, CallOf(params, FALSE))
    /\ error' = e
    /\ pc' = "failed"
    /\ UNCHANGED <<bucket, i>>

AddPut ==
    /\ pc = "add" /\ i <= Len(changes.add)
    /\ output' = <<"Adding", changes.add[i].path, "as", changes.add[i].key>>
    /\ Resolved(UploadParams(changes.add[i]))
    /\ UNCHANGED <<files, trailingSlashes, source, target, changes, run, listed, config, cacheControl, exists,
                   website, tasks>>

AddRejected ==
    /\ pc = "add" /\ i <= Len(changes.add)
    /\ output' = <<"Adding", changes.add[i].path, "as", changes.add[i].key>>
    /\ \E e \in RemoteErrors : Rejected(UploadParams(changes.add[i]), e)
    /\ UNCHANGED <<files, trailingSlashes, source, target, changes, run, listed, config, cacheControl, exists,
                   website, tasks>>

AddEndToRemove ==
    /\ pc = "add" /\ i > Len(changes.add)
    /\ pc' = "remove"
    /\ i' = 1
    /\ UNCHANGED <<files, trailingSlashes, bucket, source, target, changes,
                   calls, error, output, run, listed, config, cacheControl, exists,
                   website, tasks>>

AddEnd ==
    /\ pc = "add" /\ i > Len(changes.add)
    /\ pc' = "update"
    /\ i' = 1
    /\ UNCHANGED <<files, trailingSlashes, bucket, source, target, changes,
                   calls, error, output, run, listed, config, cacheControl, exists,
                   website, tasks>>

UpdatePutSilent ==
    /\ pc = "update" /\ i <= Len(changes.update)
    /\ output' = output
    /\ Resolved(UploadParams(changes.update[i]))
    /\ UNCHANGED <<files, trailingSlashes, source, target, changes, run, listed, config, cacheControl, exists,
                   website, tasks>>

UpdatePut ==
    /\ pc = "update" /\ i <= Len(changes.update)
    /\ output' = <<"Updating", changes.update[i].path, "as", changes.update[i].key>>
    /\ Resolved(UploadParams(changes.update[i]))
    /\ UNCHANGED <<files, trailingSlashes, source, target, changes, run, listed, config, cacheControl, exists,
                   website, tasks>>

UpdateRejected ==
    /\ pc = "update" /\ i <= Len(changes.update)
    /\ output' = <<"Updating", changes.update[i].path, "as", changes.update[i].key>>
    /\ \E e \in RemoteErrors : Rejected(UploadParams(changes.update[i]), e)
    /\ UNCHANGED <<files, trailingSlashes, source, target, changes, run, listed, config, cacheControl, exists,
                   website, tasks>>

UpdateEndRelist ==
    /\ pc = "update" /\ i > Len(changes.update)
    /\ pc' = "remove"
    /\ i' = 1
    /\ calls' = Append(calls, ListCall(TRUE))
    /\ target' = [n \in 1..Len(Contents(bucket)) |-> TargetEntry(Contents(bucket)[n])]
    /\ UNCHANGED <<files, trailingSlashes, bucket, source, changes,
                   error, output, run, listed, config, cacheControl, exists,
                   website, tasks>>

UpdateEnd ==
    /\ pc = "update" /\ i > Len(changes.update)
    /\ pc' = "remove"
    /\ i' = 1
    /\ UNCHANGED <<files, trailingSlashes, bucket, source, target, changes,
                   calls, error, output, run, listed, config, cacheControl, exists,
                   website, tasks>>

RemovePutListed ==
    /\ pc = "remove" /\ i <= Len(changes.remove)
    /\ output' = <<"Removing", target[i].key>>
    /\ Resolved(RemoveParams(target[i]))
    /\ UNCHANGED <<files, trailingSlashes, source, target, changes, run, listed, config, cacheControl, exists,
                   website, tasks>>

RemovePut ==
    /\ pc = "remove" /\ i <= Len(changes.remove)
    /\ output' = <<"Removing", changes.remove[i].key>>
    /\ Resolved(RemoveParams(changes.remove[i]))
    /\ UNCHANGED <<files, trailingSlashes, source, target, changes, run, listed, config, cacheControl, exists,
                   website, tasks>>

RemoveRejected ==
    /\ pc = "remove" /\ i <= Len(changes.remove)
    /\ output' = <<"Removing", changes.remove[i].key>>
    /\ \E e \in RemoteErrors : Rejected(RemoveParams(changes.remove[i]), e)
    /\ UNCHANGED <<files, trailingSlashes, source, target, changes, run, listed, config, cacheControl, exists,
                   website, tasks>>

RemoveEnd ==
    /\ pc = "remove" /\ i > Len(changes.remove)
    /\ pc' = "done"
    /\ tasks' = Append(tasks, "Synchronize website")
    /\ UNCHANGED <<files, trailingSlashes, bucket, source, target, changes, i,
                   calls, error, output, run, listed, config, cacheControl,
                   exists, website>>

\* the deploy is run again over the same directory and bucket
Rerun ==
    /\ pc = "done" /\ run < MaxRuns
    /\ run' = run + 1
    /\ pc' = "source"
    /\ source' = <<>>
    /\ target' = <<>>
    /\ changes' = EmptyChanges
    /\ i' = 1
    /\ calls' = <<>>
    /\ output' = <<>>
    /\ listed' = <<>>
    /\ cacheControl' = "none"
    /\ tasks' = SubSeq(TaskTitles, 1, 4)
    /\ UNCHANGED <<files, trailingSlashes, bucket, error, config, exists, website>>

Next ==
    \/ BuildSource
    \/ BuildSourceThrows
    \/ ListObjects
    \/ ListObjectsRejected
    \/ Diff
    \/ AddPut
    \/ AddRejected
    \/ AddEnd
    \/ UpdatePut
    \/ UpdateRejected
    \/ UpdateEnd
    \/ RemovePut
    \/ RemoveRejected
    \/ RemoveEnd
    \/ Rerun

Spec == Init /\ [][Next]_vars

\* ------------------------------------------------- the tasks before it
OtherCall(op, ok) ==
    [op |-> op, Key |-> NoKey, Body |-> "none", ACL |-> "none",
     CacheControl |-> "none", ContentType |-> "none", ok |-> ok]

syncVars == <<source, target, changes, i, output, run, listed, cacheControl>>

LoadConfiguration ==
    /\ pc = "load" /\ config.present
    /\ pc' = "build"
    /\ tasks' = Append(tasks, TaskTitles[1])
    /\ UNCHANGED <<files, trailingSlashes, bucket, calls, error, config, exists,
                   website, syncVars>>

LoadConfigurationMissing ==
    /\ pc = "load" /\ ~config.present
    /\ error' = [code |-> "KnownError"]
    /\ pc' = "failed"
    /\ UNCHANGED <<files, trailingSlashes, bucket, calls, config, exists,
                   website, tasks, syncVars>>

BuildWebsite ==
    /\ pc = "build"
    /\ pc' = "head"
    /\ tasks' = Append(tasks, TaskTitles[2])
    /\ UNCHANGED <<files, trailingSlashes, bucket, calls, error, config, exists,
                   website, syncVars>>

BuildWebsiteFails ==
    /\ pc = "build"
    /\ error' = [code |-> "BuildFailed"]
    /\ pc' = "failed"
    /\ UNCHANGED <<files, trailingSlashes, bucket, calls, config, exists,
                   website, tasks, syncVars>>

\* skip: headBucket resolves, the task is skipped
HeadBucketFound ==
    /\ pc = "head" /\ exists
    /\ calls' = Append(calls, OtherCall("headBucket", TRUE))
    /\ pc' = "configure"
    /\ tasks' = Append(tasks, TaskTitles[3])
    /\ UNCHANGED <<files, trailingSlashes, bucket, error, config, exists,
                   website, syncVars>>

HeadBucketRejectedSkips ==
    /\ pc = "head"
    /\ calls' = Append(calls, OtherCall("headBucket", FALSE))
    /\ pc' = "configure"
    /\ tasks' = Append(tasks, TaskTitles[3])
    /\ UNCHANGED <<files, trailingSlashes, bucket, error, config, exists,
                   website, syncVars>>

\* skip: headBucket rejects (no bucket, no access, no connection); the error
\* is caught and dropped, bucketExists stays false
HeadBucketRejected ==
    /\ pc = "head"
    /\ calls' = Append(calls, OtherCall("headBucket", FALSE))
    /\ pc' = "create"
    /\ UNCHANGED <<files, trailingSlashes, bucket, error, config, exists,
                   website, tasks, syncVars>>

CreateBucket ==
    /\ pc = "create"
    /\ calls' = Append(calls, [OtherCall("createBucket", TRUE) EXCEPT !.ACL = "public-read"])
    /\ exists' = TRUE
    /\ pc' = "configure"
    /\ tasks' = Append(tasks, TaskTitles[3])
    /\ UNCHANGED <<files, trailingSlashes, bucket, error, config, website, syncVars>>

CreateBucketRejected ==
    /\ pc = "create"
    /\ calls' = Append(calls, [OtherCall("createBucket", FALSE) EXCEPT !.ACL = "public-read"])
    /\ \E e \in RemoteErrors : error' = e
    /\ pc' = "failed"
    /\ UNCHANGED <<files, trailingSlashes, bucket, config, exists, website,
                   tasks, syncVars>>

ConfigureBucket ==
    /\ pc = "configure" /\ exists
    /\ calls' = Append(calls, OtherCall("putBucketWebsite", TRUE))
    /\ website' = WebsiteOf(config, trailingSlashes)
    /\ pc' = "source"
    /\ tasks' = Append(tasks, TaskTitles[4])
    /\ UNCHANGED <<files, trailingSlashes, bucket, error, config, exists, syncVars>>

ConfigureBucketRejected ==
    /\ pc = "configure"
    /\ calls' = Append(calls, OtherCall("putBucketWebsite", FALSE))
    /\ \E e \in RemoteErrors : error' = e
    /\ pc' = "failed"
    /\ UNCHANGED <<files, trailingSlashes, bucket, config, exists, website,
                   tasks, syncVars>>

PipelinePaths == {P_a_index, P_about, P_index}

PipelineTrees ==
    UNION {[S -> Bytes] : S \in {T \in SUBSET PipelinePaths : Cardinality(T) <= MaxFiles}}

PipelineBuckets ==
    UNION {[S -> Bytes] : S \in SUBSET {P_index, K_old}}

\* a deploy from its first task on
PipelineInit ==
    /\ files \in PipelineTrees
    /\ trailingSlashes \in BOOLEAN
    /\ \/ exists = FALSE /\ bucket = <<>>
       \/ exists = TRUE /\ bucket \in PipelineBuckets
    /\ config \in Configs
    /\ pc = "load"
    /\ source = <<>>
    /\ target = <<>>
    /\ changes = EmptyChanges
    /\ i = 1
    /\ calls = <<>>
    /\ error = NoError
    /\ output = <<>>
    /\ run = 1
    /\ listed = <<>>
    /\ cacheControl = "none"
    /\ website = NoWebsite
    /\ tasks = <<>>

PipelineNext ==
    \/ LoadConfiguration
    \/ LoadConfigurationMissing
    \/ BuildWebsite
    \/ BuildWebsiteFails
    \/ HeadBucketFound
    \/ HeadBucketRejected
    \/ CreateBucket
    \/ CreateBucketRejected
    \/ ConfigureBucket
    \/ ConfigureBucketRejected
    \/ BuildSource
    \/ BuildSourceThrows
    \/ ListObjects
    \/ ListObjectsRejected
    \/ Diff
    \/ AddPut
    \/ AddRejected
    \/ AddEnd
    \/ UpdatePut
    \/ UpdateRejected
    \/ UpdateEnd
    \/ RemovePut
    \/ RemoveRejected
    \/ RemoveEnd

PipelineSpec == PipelineInit /\ [][PipelineNext]_vars

TypeOK ==
    /\ pc \in {"load", "build", "head", "create", "configure", "source", "list", "diff", "add", "update", "remove", "done", "failed"}
    /\ run \in 1..MaxRuns
    /\ DOMAIN bucket \subseteq Keys

\* ================================================================ claims
Applying == pc \in {"add", "update", "remove", "done", "failed"}

PutsOn(k) == {n \in 1..Len(calls) : calls[n].op = "putObject" /\ calls[n].Key = k}

LocalBytes(k) ==
    {files[source[n].path] : n \in {j \in 1..Len(source) : source[j].key = k}}

IndexPath(path) == path # P_index /\ EndsWith(path, <<"/", "index", ".html">>)

\* C1: every key of the listing snapshot that has no local target key gets a
\* deletion, and after a run that succeeded it is no longer in the bucket.
C1_RemoteOnlyKeysDeleted ==
    pc = "done" =>
        \A k \in KeysOf(target) \ KeysOf(source) :
            /\ \E n \in 1..Len(calls) : calls[n].op = "deleteObject" /\ calls[n].Key = k
            /\ k \notin DOMAIN bucket

\* C2: after a run that succeeded the bucket's keys are exactly the target
\* keys of the local files and each object holds its local file's bytes.
C2_BucketMatchesLocal ==
    pc = "done" =>
        /\ DOMAIN bucket = KeysOf(source)
        /\ \A n \in 1..Len(source) : bucket[source[n].key] = files[source[n].path]

\* C3: with trailing slashes disabled, a path ending in /index.html other
\* than the root index.html maps to the path without the trailing
\* /index.html, at any depth.
C3_CollapseAtAnyDepth ==
    \A n \in 1..Len(source) :
        (~trailingSlashes /\ IndexPath(source[n].path)) =>
            source[n].key = SubSeq(source[n].path, 1, Len(source[n].path) - 3)

\* C4: in every other case (trailing slashes enabled, the root index.html,
\* a path not ending in /index.html) the key is the path unchanged.
C4_OtherPathsUnchanged ==
    \A n \in 1..Len(source) :
        (trailingSlashes \/ ~IndexPath(source[n].path)) =>
            source[n].key = source[n].path

C4_Witness ==
    /\ ~trailingSlashes
    /\ Len(source) = 2
    /\ source[1].path = P_a_xindex /\ source[1].key = P_a_xindex
    /\ source[2].path = P_index /\ source[2].key = P_index

\* C5: a second run after a successful one, with no local change and no
\* other writer, issues no remote call but the listing.
C5_SecondRunOnlyLists ==
    run > 1 => \A n \in 1..Len(calls) : calls[n].op = "listObjectsV2"

\* C6: a local key absent from the snapshot gets exactly one upload, a local
\* key present with a different hash gets exactly one upload, a local key
\* present with an equal hash gets no remote operation and keeps its object.
C6_ClassificationApplied ==
    Applying =>
        \A k \in KeysOf(source) :
            /\ Cardinality(PutsOn(k)) <= 1
            /\ (k \in KeysOf(target) /\ LocalBytes(k) = {listed[k]}) =>
                  /\ PutsOn(k) = {}
                  /\ k \in DOMAIN bucket /\ bucket[k] = listed[k]
            /\ (pc = "done" /\ k \notin KeysOf(target)) =>
                  Cardinality(PutsOn(k)) = 1
            /\ (pc = "done" /\ k \in KeysOf(target) /\ listed[k] \notin LocalBytes(k)) =>
                  Cardinality(PutsOn(k)) = 1

C6_Witness ==
    /\ pc = "done"
    /\ \E k \in KeysOf(source) : /\ k \in KeysOf(target)
                                /\ listed[k] \notin LocalBytes(k)
                                /\ Cardinality(PutsOn(k)) = 1
    /\ \E k \in KeysOf(source) : /\ k \in KeysOf(target)
                                /\ LocalBytes(k) = {listed[k]}
                                /\ PutsOn(k) = {}

\* C7: a failed upload or removal is the last remote operation of its run,
\* and the run has ended in failure.
C7_AbortOnFirstFailure ==
    \A n \in 1..Len(calls) :
        ~calls[n].ok => (n = Len(calls) /\ pc = "failed")

C7_Witness ==
    /\ pc = "failed"
    /\ Len(calls) >= 3
    /\ calls[Len(calls)].op = "putObject"
    /\ Len(calls) - 1 < Len(changes.add) + Len(changes.update) + Len(changes.remove)

\* C8: the error a failed upload or removal ends the run with names the key
\* of the entry whose operation failed.
C8_ErrorNamesKey ==
    (pc = "failed" /\ Len(calls) > 0 /\ calls[Len(calls)].op = "putObject") =>
        /\ "key" \in DOMAIN error
        /\ error.key = calls[Len(calls)].Key

\* C9: two local files with the same target key are rejected with a
\* configuration error before the differ runs and before any upload.
C9_CollisionRejected ==
    (\E n, m \in 1..Len(source) : n # m /\ source[n].key = source[m].key) =>
        /\ changes = EmptyChanges
        /\ \A n \in 1..Len(calls) : calls[n].op = "listObjectsV2"

\* C10: the remote manifest has one entry for every object of the bucket,
\* also when the listing is truncated.
C10_AllObjectsListed ==
    pc = "diff" => KeysOf(target) = DOMAIN bucket

\* ------------------------------------------------- claims C11 to C17
Stored(call) == IF call.Body = "none" THEN EmptyBody ELSE call.Body

IsUpload(call) == call.op = "putObject" /\ call.Body # "none"

IsRemoval(call) == call.op = "putObject" /\ call.Body = "none"

ListCalls == {n \in 1..Len(calls) : calls[n].op = "listObjectsV2"}

ApplyBegun ==
    \/ pc \in {"add", "update", "remove", "done"}
    \/ \E n \in 1..Len(calls) : calls[n].op = "putObject"

\* the change set in the order the loops go through it
Plan == changes.add \o changes.update \o changes.remove

\* C11: when the apply phase has failed, every object written by a call
\* that succeeded before is in the bucket with the content written, and
\* every other object is as it was listed: nothing is undone.
C11_NoRollback ==
    pc = "failed" =>
        /\ \A n \in 1..Len(calls) :
              (calls[n].op = "putObject" /\ calls[n].ok) =>
                  /\ calls[n].Key \in DOMAIN bucket
                  /\ bucket[calls[n].Key] = Stored(calls[n])
        /\ \A k \in DOMAIN listed :
              (\A n \in PutsOn(k) : ~calls[n].ok) => (k \in DOMAIN bucket /\ bucket[k] = listed[k])
        /\ DOMAIN listed \subseteq DOMAIN bucket

C11_Witness ==
    /\ pc = "failed"
    /\ \E n \in 1..Len(calls) :
          /\ IsUpload(calls[n]) /\ calls[n].ok
          /\ calls[n].Key \in DOMAIN listed
          /\ listed[calls[n].Key] # calls[n].Body
          /\ bucket[calls[n].Key] = calls[n].Body

\* C12: the status line in task.output when a put is issued names the entry
\* of that put: the local path and target key of an upload, the bare key of
\* a removal.
C12_StatusLineFirst ==
    (Len(calls) > 0 /\ calls[Len(calls)].op = "putObject") =>
        LET call == calls[Len(calls)]
        IN  \/ /\ IsRemoval(call)
               /\ output = <<"Removing", call.Key>>
            \/ /\ IsUpload(call)
               /\ \E n \in 1..Len(source) :
                     /\ source[n].key = call.Key
                     /\ files[source[n].path] = call.Body
                     /\ output \in {<<"Adding", source[n].path, "as", call.Key>>,
                                    <<"Updating", source[n].path, "as", call.Key>>}

C12_Witness ==
    /\ Len(calls) = 3
    /\ IsUpload(calls[2]) /\ IsUpload(calls[3])
    /\ output # <<>> /\ output[1] = "Updating" /\ output[4] = calls[3].Key

\* C13: within a run the listing is taken once, before the first put, and
\* neither the snapshot nor the change set changes once apply has begun.
C13_DiffBeforeApply ==
    /\ [](ApplyBegun => (ListCalls = {1} /\ calls[1].ok))
    /\ [][(ApplyBegun /\ ApplyBegun') =>
            (target' = target /\ changes' = changes /\ ListCalls' = ListCalls)]_vars

C13_Witness ==
    /\ pc = "remove"
    /\ Len(calls) >= 3
    /\ ListCalls = {1}

\* C14: no key is acted on in more than one of add, update and remove; a
\* key that is uploaded in a run is not the target of a removal in that run.
C14_CategoryExclusive ==
    /\ KeysOf(changes.add) \cap KeysOf(changes.update) = {}
    /\ KeysOf(changes.add) \cap KeysOf(changes.remove) = {}
    /\ KeysOf(changes.update) \cap KeysOf(changes.remove) = {}
    /\ \A n, m \in 1..Len(calls) :
          (IsUpload(calls[n]) /\ IsRemoval(calls[m])) => calls[n].Key # calls[m].Key

C14_Witness ==
    /\ pc = "done"
    /\ \E n, m \in 1..Len(calls) : IsUpload(calls[n]) /\ IsRemoval(calls[m])
    /\ \E n, m \in 1..Len(source) : n # m /\ source[n].key = source[m].key

\* C17: the puts of a run are issued one after the other in the order all
\* adds, all updates, all removals, each after the one before it succeeded,
\* and each change-set entry at most once.
C17_SequentialApply ==
    Applying =>
        /\ Len(calls) - 1 <= Len(Plan)
        /\ \A n \in 2..Len(calls) :
              /\ calls[n].op = "putObject"
              /\ calls[n].Key = Plan[n - 1].key
              /\ IsRemoval(calls[n]) <=> (n - 1 > Len(changes.add) + Len(changes.update))
              /\ n < Len(calls) => calls[n].ok

C17_Witness ==
    /\ pc = "done"
    /\ Len(changes.add) = 1 /\ Len(changes.update) = 1 /\ Len(changes.remove) = 1
    /\ Len(calls) = 4

\* ------------------------------------------------- claims C15 to C19
UploadKeys == KeysOf(changes.add) \cup KeysOf(changes.update)

CallsOf(op) == {n \in 1..Len(calls) : calls[n].op = op}

\* C15: every put for an add or update entry is under the entry's target
\* key, public-read, with the cache-control value resolved for the run and
\* the content type of the local path.
C15_UploadMetadata ==
    \A n \in CallsOf("putObject") :
        calls[n].Key \in UploadKeys =>
            /\ calls[n].ACL = "public-read"
            /\ calls[n].CacheControl = cacheControl
            /\ \E m \in 1..Len(Plan) :
                  /\ m <= Len(changes.add) + Len(changes.update)
                  /\ Plan[m].key = calls[n].Key
                  /\ files[Plan[m].path] = calls[n].Body
                  /\ Plan[m].path[Len(Plan[m].path)] = ".html"
                        => calls[n].ContentType = "text/html"

C15_Witness ==
    /\ pc = "done"
    /\ cacheControl = "no-cache"
    /\ Len(changes.add) >= 1 /\ Len(changes.update) >= 1
    /\ \A m \in 1..(Len(changes.add) + Len(changes.update)) :
          \E n \in CallsOf("putObject") : calls[n].Key = Plan[m].key /\ calls[n].ok

\* C16: a local file that cannot be read while the manifest is built ends
\* the run before the listing is requested and before any put; no change
\* set is computed.
C16_UnreadableFileAborts ==
    error \in IOErrors =>
        /\ pc = "failed"
        /\ calls = <<>>
        /\ source = <<>> /\ target = <<>> /\ changes = EmptyChanges

C16_Witness ==
    /\ error = [code |-> "ENOENT"]
    /\ pc = "failed"
    /\ Cardinality(DOMAIN files) = 2
    /\ DOMAIN bucket # {}

\* C18: with trailing slashes disabled, the error document key registered
\* by the configure task is the key under which the file named by error_key
\* is stored, so that it is in the bucket after a deploy that succeeded.
C18_ErrorDocumentStored ==
    (pc = "done" /\ ~trailingSlashes /\ config.error_key \in DOMAIN files) =>
        /\ website.ErrorDocument \in DOMAIN bucket
        /\ \E n \in 1..Len(source) :
              /\ source[n].path = config.error_key
              /\ source[n].key = website.ErrorDocument

\* C19: the tasks complete in the order of the list, each after the one
\* before it; createBucket is issued only after a headBucket that did not
\* resolve; no listing or put is issued unless the bucket was found or
\* created and putBucketWebsite resolved.
C19_PipelineOrder ==
    /\ tasks = SubSeq(TaskTitles, 1, Len(tasks))
    /\ pc = "build" => Len(tasks) = 1
    /\ pc \in {"head", "create"} => Len(tasks) = 2
    /\ pc = "configure" => Len(tasks) = 3
    /\ pc \in {"source", "list", "diff", "add", "update", "remove"} => Len(tasks) = 4
    /\ pc = "done" => Len(tasks) = 5
    /\ \A n \in CallsOf("createBucket") :
          /\ n > 1 /\ calls[n - 1].op = "headBucket" /\ ~calls[n - 1].ok
          /\ \A m \in CallsOf("headBucket") : ~calls[m].ok
    /\ \A n \in CallsOf("listObjectsV2") \cup CallsOf("putObject") :
          /\ exists
          /\ \E m \in 1..(n - 1) :
                calls[m].op \in {"headBucket", "createBucket"} /\ calls[m].ok
          /\ \E m \in 1..(n - 1) : calls[m].op = "putBucketWebsite" /\ calls[m].ok

C19_Witness ==
    /\ pc = "done"
    /\ \E n \in CallsOf("createBucket") : calls[n].ok
    /\ CallsOf("putObject") # {}

====
